---- MODULE Spec2Model ----
(***************************************************************************)
(* The session arbiter of ogame: the Prioritize transaction handle         *)
(* (prioritize.go) on top of the priority scheduler that botLock and       *)
(* botUnlock reach.  The handle's begin/done/Tx and the wrapped operations *)
(* are translated from prioritize.go.  botLock, botUnlock, the queue of    *)
(* pending requests and the registry are not part of prioritize.go; they   *)
(* follow sections 4.2 and 4.4 of the specification.  The session behind   *)
(* b.bot (wrapLogin, logout, the re-login of an expired session) is not    *)
(* part of prioritize.go either; it follows section 4.3.                   *)
(*                                                                         *)
(* Spec is the handle and the scheduler with the bot calls left abstract,  *)
(* FairSpec adds fair admission, StreamSpec is the handle and the          *)
(* scheduler under a sustained load of Critical requests, SessionSpec is   *)
(* the handle and the scheduler with the session operations spelled out.   *)
(*                                                                         *)
(* RegistrySpec is Spec with Snapshot as one more step.                    *)
(*                                                                         *)
(* In these each handle is driven by one thread of its own, and a thread   *)
(* calls Done only to close a Begin of its own that is still open (line    *)
(* 33: "Done must be called to release the lock").  Three specifications   *)
(* lift one of these restrictions each: SharedSpec has two threads on one  *)
(* handle, UnmatchedSpec has callers that call Done at depth 0, ThreadSpec *)
(* has one thread on two handles.                                          *)
(***************************************************************************)
EXTENDS Integers, Sequences, FiniteSets, TLC

\* ------------------------------------------------------------- bounds
NumHandles == 2
MaxDepth == 2
MaxLocks == 2

Handles == 1..NumHandles
NoHandle == 0

\* ------------------------------------------------------------- priorities
Low == 1
Normal == 2
Important == 3
Critical == 4

Levels == {"Low", "Normal", "Important", "Critical"}

\* Variant: the four constants numbered in the opposite order.
PriorityOfReversed(level) ==
    CASE level = "Low" -> Critical
      [] level = "Normal" -> Important
      [] level = "Important" -> Normal
      [] level = "Critical" -> Low

\* Variant: Critical given the value of Important.
PriorityOfCriticalAsImportant(level) ==
    CASE level = "Low" -> Low
      [] level = "Normal" -> Normal
      [] level = "Important" -> Important
      [] level = "Critical" -> Important

\* The integer a call site passes when it names one of the constants.
PriorityOf(level) ==
    CASE level = "Low" -> Low
      [] level = "Normal" -> Normal
      [] level = "Important" -> Important
      [] level = "Critical" -> Critical

\* ------------------------------------------------------------- inputs
Initiators == {"job"}
Names == {"", "A"}
OpNames == {"Login"}
ClbResults == {"nil", "err"}

VARIABLES
    isTx,          \* Prioritize.isTx
    initiator,     \* Prioritize.initiator
    name,          \* Prioritize.name
    taskIsDoneCh,  \* Prioritize.taskIsDoneCh: "open" or "closed"
    pc,            \* where the handle's thread is: "run", "botLock", "cancelled"
    frames,        \* the thread's open Tx / wrapped-operation calls, innermost last
    queue,         \* the scheduler's pending requests, in order of arrival
    holder,        \* the handle admitted to the exclusive section, or NoHandle
    registry,      \* the observability registry: handle -> record or NoEntry
    calls,         \* per handle, how often botLock, botUnlock and close ran
    status,        \* the session: "LoggedOut", "LoggingIn", "Active", "Expired"
    credentials,   \* the session's login material: "password" or "token"
    last           \* the call that ended in the last step, if one did

vars == <<isTx, initiator, name, taskIsDoneCh, pc, frames, queue, holder,
          registry, calls, status, credentials, last>>

handleVars == <<isTx, initiator, name, taskIsDoneCh>>
schedVars == <<queue, holder, registry>>

NoEntry == [state |-> "none"]
\* last: the handle, the call, what its body gave (arg), what the call gave
\* (ret), the depth before the call (base; for botLock the request's place in
\* the queue) and the Begin calls the body left open (opens).
NoCall == [handle |-> NoHandle, call |-> "none", arg |-> "", ret |-> "", base |-> 0,
           opens |-> 0]

\* The completion signal a handle is constructed with.
NewSignal == "open"

Init ==
    /\ isTx = [h \in Handles |-> 0]
    /\ initiator = [h \in Handles |-> ""]
    /\ name = [h \in Handles |-> ""]
    /\ taskIsDoneCh = [h \in Handles |-> NewSignal]
    /\ pc = [h \in Handles |-> "run"]
    /\ frames = [h \in Handles |-> <<>>]
    /\ queue = <<>>
    /\ holder = NoHandle
    /\ registry = [h \in Handles |-> NoEntry]
    /\ calls = [h \in Handles |-> [lock |-> 0, unlock |-> 0, close |-> 0]]
    /\ status = "LoggedOut"
    /\ credentials = "password"
    /\ last = NoCall

\* ------------------------------------------------------------- the handle
\* BeginNamed: an empty name becomes "Tx".
defaultName(n) == IF n = "" THEN "Tx" ELSE n

\* Variant: no begin takes the lock.
beginAcquiresNever(v) == FALSE

\* Variant: every begin takes the lock, whatever the counter says.
beginAcquiresAlways(v) == v >= 1

\* Variant: a nested begin asks for the lock once more.
beginAcquiresNested(v) == v = 1 \/ v = MaxDepth

\* begin: the test on the incremented counter that decides to take the lock.
beginAcquires(v) == v = 1

\* begin: the label the lock is taken under.
composeName(init, old, n) == (IF init /= "" THEN init \o ":" ELSE old) \o n

\* Variant: no done releases the lock.
doneReleasesNever(v) == FALSE

\* Variant: every done releases the lock, nested or not.
doneReleasesAlways(v) == v >= 0

\* done: the test on the decremented counter that decides to release the lock.
doneReleases(v) == v = 0

\* Tx: the value handed back is the callback's.
TxResult(err) == err

\* One run of done on the handle state s = [isTx, ch, unlocks, closes,
\* released, panicked]: botUnlock runs first, the deferred close after it;
\* closing a closed channel panics.
doneOnce(s) ==
    LET v == s.isTx - 1 IN
    IF doneReleases(v)
    THEN [isTx |-> v, ch |-> "closed", unlocks |-> s.unlocks + 1,
          closes |-> s.closes + 1, released |-> TRUE,
          panicked |-> (s.panicked \/ s.ch = "closed")]
    ELSE [s EXCEPT !.isTx = v]

RECURSIVE doneTimes(_, _)
doneTimes(s, k) == IF k = 0 THEN s ELSE doneTimes(doneOnce(s), k - 1)

\* Variant: done is called after the body instead of deferred, so that a
\* panic skips it.
DeferredSkippedOnPanic(fs) == 0

\* The deferred done calls that run when a panic unwinds the open calls fs:
\* one per Tx or wrapped operation (defer tx.Done(), defer b.done()).
DeferredOnPanic(fs) == Len(fs)

\* Variant: Tx ends the transaction only when the callback succeeded.
DeferredOnlyOnSuccess(err) == IF err = "nil" THEN 1 ELSE 0

\* The deferred done of a Tx whose callback returned err.
DeferredOnReturn(err) == 1

handleState(h) ==
    [isTx |-> isTx[h], ch |-> taskIsDoneCh[h], unlocks |-> 0, closes |-> 0,
     released |-> FALSE, panicked |-> FALSE]

InOp(h) == frames[h] /= <<>> /\ frames[h][Len(frames[h])].kind = "Op"
InTx(h) == frames[h] /= <<>> /\ frames[h][Len(frames[h])].kind = "Tx"
Top(h) == frames[h][Len(frames[h])]

\* The depth below which the thread has no Begin of its own left to close.
Floor(h) == IF frames[h] = <<>> THEN 0 ELSE Top(h).base + 1

\* ------------------------------------------------------------- the scheduler
RECURSIVE Sum(_, _)
Sum(f, S) == IF S = {} THEN 0 ELSE LET x == CHOOSE y \in S : TRUE
                                  IN f[x] + Sum(f, S \ {x})

\* How often botLock has been called so far.
Locks == Sum([h \in Handles |-> calls[h].lock], Handles)

\* A pending request; arg is the name its Begin was called with.
Request(h, n, label, level) ==
    [handle |-> h, arg |-> n, label |-> label, level |-> level,
     priority |-> PriorityOf(level)]

\* The pending request admitted next: highest priority, earliest first.
NextIndex(q) ==
    CHOOSE i \in 1..Len(q) :
        \A j \in 1..Len(q) :
            \/ q[j].priority < q[i].priority
            \/ q[j].priority = q[i].priority /\ i <= j

\* What the request at i leaves behind on admission: "first" when it was the
\* earliest pending request, "overtook" when an earlier one still waits.
Overtaken(q, i) == IF i = 1 THEN "first" ELSE "overtook"

RemoveAt(q, i) == SubSeq(q, 1, i - 1) \o SubSeq(q, i + 1, Len(q))

\* Variant: a canceled request stays in the queue.
WithoutNothing(q, h) == q

\* The queue without the requests of handle h.
Without(q, h) == SelectSeq(q, LAMBDA r : r.handle /= h)

\* Acquire: the request is registered and queued; the caller waits.
Acquire(h, n, label, level) ==
    /\ queue' = Append(queue, Request(h, n, label, level))
    /\ registry' = [registry EXCEPT ![h] =
           [state |-> "queued", label |-> label, priority |-> PriorityOf(level),
            startedAt |-> "nil"]]
    /\ holder' = holder

\* Release: the holder gives the section back and its entry goes.
Release(h) ==
    /\ holder' = IF holder = h THEN NoHandle ELSE holder
    /\ registry' = IF holder = h THEN [registry EXCEPT ![h] = NoEntry] ELSE registry
    /\ queue' = queue

\* The scheduler admits the next pending request: its botLock returns.
Admit ==
    /\ holder = NoHandle
    /\ queue /= <<>>
    /\ LET i == NextIndex(queue)
           r == queue[i]
       IN /\ holder' = r.handle
          /\ queue' = RemoveAt(queue, i)
          /\ registry' = [registry EXCEPT ![r.handle] =
                 [@ EXCEPT !.state = "running", !.startedAt = "set"]]
          /\ pc' = [pc EXCEPT ![r.handle] = "run"]
          /\ last' = [handle |-> r.handle, call |-> "botLock", arg |-> r.level,
                      ret |-> Overtaken(queue, i), base |-> i, opens |-> 0]
    /\ UNCHANGED <<handleVars, frames, calls, status, credentials>>

\* The context of a waiting request is canceled: the request leaves the
\* queue and the registry, and its wait ends with a cancellation error.
Cancel(h) ==
    /\ pc[h] = "botLock"
    /\ queue' = Without(queue, h)
    /\ registry' = [registry EXCEPT ![h] = NoEntry]
    /\ pc' = [pc EXCEPT ![h] = "cancelled"]
    /\ last' = [handle |-> h, call |-> "botLock", arg |-> "",
                ret |-> "CancellationError", base |-> 0, opens |-> 0]
    /\ UNCHANGED <<handleVars, frames, holder, calls, status, credentials>>

\* ------------------------------------------------------------- begin and done
\* begin(n) on handle h, reached from a call with the name raw, leaving the
\* open calls fs.
beginStep(h, raw, n, level, fs) ==
    LET v == isTx[h] + 1 IN
    /\ isTx[h] < MaxDepth
    /\ isTx' = [isTx EXCEPT ![h] = v]
    /\ frames' = [frames EXCEPT ![h] = fs]
    /\ last' = NoCall
    /\ IF beginAcquires(v)
       THEN /\ Locks < MaxLocks
            /\ name' = [name EXCEPT ![h] = composeName(initiator[h], name[h], n)]
            /\ Acquire(h, raw, name'[h], level)
            /\ pc' = [pc EXCEPT ![h] = "botLock"]
            /\ calls' = [calls EXCEPT ![h].lock = @ + 1]
       ELSE UNCHANGED <<name, schedVars, pc, calls>>
    /\ UNCHANGED <<initiator, taskIsDoneCh, status, credentials>>

\* k runs of done on handle h, finishing `call` and leaving the open calls fs;
\* a panic of done unwinds the calls that are still open.
doneStep(h, k, call, arg, ret, fs) ==
    LET s1 == doneTimes(handleState(h), k)
        s == IF s1.panicked THEN doneTimes(s1, DeferredOnPanic(fs)) ELSE s1
    IN /\ isTx' = [isTx EXCEPT ![h] = s.isTx]
       /\ taskIsDoneCh' = [taskIsDoneCh EXCEPT ![h] = s.ch]
       /\ calls' = [calls EXCEPT ![h].unlock = @ + s.unlocks,
                                 ![h].close = @ + s.closes]
       /\ IF s.released THEN Release(h) ELSE UNCHANGED schedVars
       /\ frames' = [frames EXCEPT ![h] = IF s.panicked THEN <<>> ELSE fs]
       /\ last' = [handle |-> h, call |-> call, arg |-> arg,
                   ret |-> IF s.panicked THEN "panic" ELSE ret,
                   base |-> IF call = "Done" THEN isTx[h] ELSE Top(h).base,
                   opens |-> 0]
       /\ UNCHANGED <<initiator, name, pc, status, credentials>>

Ready(h) == pc[h] = "run" /\ ~InOp(h)

SetInitiator(h, i) ==
    /\ Ready(h)
    /\ initiator' = [initiator EXCEPT ![h] = i]
    /\ last' = NoCall
    /\ UNCHANGED <<isTx, name, taskIsDoneCh, pc, frames, schedVars, calls, status, credentials>>

BeginNamed(h, n, level) ==
    /\ Ready(h)
    /\ beginStep(h, n, defaultName(n), level, frames[h])

Done(h) ==
    /\ Ready(h)
    /\ isTx[h] > Floor(h)
    /\ doneStep(h, 1, "Done", "", "", frames[h])

\* ------------------------------------------------------------- Tx
Push(h, kind, op) ==
    Append(frames[h], [kind |-> kind, op |-> op, base |-> isTx[h]])
Pop(h) == SubSeq(frames[h], 1, Len(frames[h]) - 1)

\* Tx up to its callback: tx := b.Begin(); defer tx.Done().
TxStart(h, level) ==
    /\ Ready(h)
    /\ beginStep(h, "Tx", defaultName("Tx"), level, Push(h, "Tx", "Tx"))

\* The callback returns err: the deferred Done runs and Tx returns.
TxReturn(h, err) ==
    /\ pc[h] = "run"
    /\ InTx(h)
    /\ isTx[h] = Floor(h)
    /\ doneStep(h, DeferredOnReturn(err), "Tx", err, TxResult(err), Pop(h))

\* A panic in the body of the innermost open call: every deferred done of
\* the open calls runs while the panic unwinds them.
Unwind(h, call) ==
    LET s == doneTimes(handleState(h), DeferredOnPanic(frames[h]))
    IN /\ isTx' = [isTx EXCEPT ![h] = s.isTx]
       /\ taskIsDoneCh' = [taskIsDoneCh EXCEPT ![h] = s.ch]
       /\ calls' = [calls EXCEPT ![h].unlock = @ + s.unlocks,
                                 ![h].close = @ + s.closes]
       /\ IF s.released THEN Release(h) ELSE UNCHANGED schedVars
       /\ frames' = [frames EXCEPT ![h] = <<>>]
       /\ last' = [handle |-> h, call |-> call, arg |-> "panic", ret |-> "panic",
                   base |-> frames[h][1].base,
                   opens |-> isTx[h] - frames[h][1].base - Len(frames[h])]
       /\ UNCHANGED <<initiator, name, pc, status, credentials>>

TxPanic(h) ==
    /\ pc[h] = "run"
    /\ InTx(h)
    /\ Unwind(h, "Tx")

\* ------------------------------------------------------------- wrapped operations
\* b.begin(op); defer b.done(); return b.bot.<op>(...)
OpStart(h, op, level) ==
    /\ Ready(h)
    /\ beginStep(h, op, op, level, Push(h, "Op", op))

OpReturn(h, res) ==
    /\ pc[h] = "run"
    /\ InOp(h)
    /\ doneStep(h, 1, Top(h).op, res, res, Pop(h))

OpPanic(h) ==
    /\ pc[h] = "run"
    /\ InOp(h)
    /\ Unwind(h, Top(h).op)

\* ------------------------------------------------------------- the session
\* The session lifecycle (wrapLogin, logout, the automatic re-login) is
\* reached through b.bot; it follows section 4.3 of the specification.
LoginOps == {"Login", "LoginWithBearerToken", "LoginWithExistingCookies"}
GameOps == {"GetPlanets"}
SessionOps == LoginOps \cup {"Logout"} \cup GameOps
LoginOutcomes == {"accepted", "rejected"}
RunOutcomes == {"ok", "expired"}
RemoteStates == {"reachable", "unreachable"}

\* How often the event e occurs in the trace t of a call.
RECURSIVE Count(_, _)
Count(t, e) ==
    IF t = <<>> THEN 0
    ELSE (IF t[Len(t)] = e THEN 1 ELSE 0) + Count(SubSeq(t, 1, Len(t) - 1), e)

\* Variant: a login starts from every status.
canLoginAlways(s) == TRUE

\* The statuses a login starts from: LoggedOut -> LoggingIn, Expired ->
\* LoggingIn.
canLogin(s) == s \in {"LoggedOut", "Expired"}

\* Variant: EnsureActive logs in whenever it is called.
needsLoginAlways(s) == s \in {"Expired", "Active"}

\* EnsureActive: the status that makes it log in.
needsLogin(s) == s = "Expired"

\* Variant: an expiry is recovered as often as it is detected.
mayReloginAgain(t) == TRUE

\* EnsureActive: one re-login per call.
mayRelogin(t) == Count(t, "login") = 0

\* Variant: a rejected login leaves the session where the attempt put it.
StatusAfterLoginStuck(outcome) ==
    IF outcome = "accepted" THEN "Active" ELSE "LoggingIn"

\* The status a login attempt ends in.
StatusAfterLogin(outcome) ==
    IF outcome = "accepted" THEN "Active" ELSE "LoggedOut"

\* The login material after the event e of a call: an accepted login leaves
\* the reusable token the service issued.
CredentialsAfter(e, c) == IF e = "accepted" THEN "token" ELSE c

\* What a login attempt gives its caller.
LoginResult(outcome) ==
    IF outcome = "accepted" THEN "nil" ELSE "AuthenticationError"

\* Variant: the wrapper drops what the bot call returned.
WrapResultDropped(res) == "nil"

\* A wrapped operation hands back what its bot call returned.
WrapResult(res) == res

\* The handle's thread is in the body of a wrapped operation of ops, at phase.
InBody(h, ops, phases) ==
    /\ pc[h] = "run"
    /\ InOp(h)
    /\ Top(h).op \in ops
    /\ Top(h).phase \in phases

\* A step of the body of the innermost call of h: the session goes to s, the
\* call to phase with the event e and, when it is over, the result res.
Body(h, s, phase, e, res) ==
    /\ status' = s
    /\ credentials' = CredentialsAfter(e, credentials)
    /\ frames' = [frames EXCEPT ![h] = [@ EXCEPT ![Len(@)] =
           [@ EXCEPT !.phase = phase, !.trace = Append(@, e), !.res = res]]]
    /\ UNCHANGED <<handleVars, pc, schedVars, calls>>

\* b.begin(op); defer b.done(); ... b.bot.<op>(...)
SessStart(h, op, level) ==
    /\ Ready(h)
    /\ beginStep(h, op, op, level,
                 Append(frames[h], [kind |-> "Op", op |-> op, base |-> isTx[h],
                                    phase |-> "call", trace |-> <<>>, res |-> ""]))

\* b.bot.wrapLogin() and the two logins from stored material: the attempt
\* starts; on an Active session there is nothing to do.
wrapLogin(h) ==
    /\ InBody(h, LoginOps, {"call"})
    /\ IF canLogin(status)
       THEN Body(h, "LoggingIn", "login", "login", "")
       ELSE Body(h, status, "done", "active", "nil")
    /\ last' = NoCall

\* The remote service answers a login attempt.  A re-login that is accepted
\* is followed by the retry of the operation.
LoginEnd(h, outcome) ==
    /\ InBody(h, LoginOps \cup GameOps, {"login"})
    /\ Body(h, StatusAfterLogin(outcome),
            IF Top(h).op \in GameOps /\ outcome = "accepted" THEN "retry" ELSE "done",
            outcome, LoginResult(outcome))
    /\ last' = NoCall

\* Variant: a logout the remote service did not get leaves the session as
\* it was.
StatusAfterLogoutIfReached(s, remote) ==
    IF remote = "reachable" THEN "LoggedOut" ELSE s

\* The status a logout ends in, with the remote service reachable or not.
StatusAfterLogout(s, remote) == "LoggedOut"

\* b.bot.logout(): best effort, nothing is returned.
logout(h, remote) ==
    /\ InBody(h, {"Logout"}, {"call"})
    /\ Body(h, StatusAfterLogout(status, remote), "done",
            "logout:" \o remote, "")
    /\ last' = NoCall

\* The remote call of an operation: on an Active session it gives its result
\* or shows that the session is no longer valid; without a session it fails.
OpRun(h, out) ==
    /\ InBody(h, GameOps, {"call", "retry"})
    /\ status \in {"Active", "LoggedOut"}
    /\ IF status = "LoggedOut"
       THEN Body(h, status, "done", "run:loggedout", "AuthenticationError")
       ELSE IF out = "ok"
       THEN Body(h, status, "done", "run:ok", "nil")
       ELSE IF mayRelogin(Top(h).trace)
       THEN Body(h, "Expired", "expired", "run:expired", "")
       ELSE Body(h, "Expired", "done", "run:expired", "SessionExpiredError")
    /\ last' = NoCall

\* EnsureActive: on an Expired session, once per call, it starts a login; on
\* any other it does nothing.
EnsureActive(h) ==
    /\ InBody(h, GameOps, {"call", "expired", "retry"})
    /\ IF needsLogin(status) /\ mayRelogin(Top(h).trace)
       THEN Body(h, "LoggingIn", "login", "login", "")
       ELSE UNCHANGED <<status, credentials, frames, handleVars, pc, schedVars, calls>>
    /\ last' = [handle |-> h, call |-> "EnsureActive", arg |-> status,
                ret |-> IF needsLogin(status) /\ mayRelogin(Top(h).trace)
                        THEN "login" ELSE "noop",
                base |-> Count(Top(h).trace, "login"), opens |-> 0,
                credentials |-> credentials]

\* The bot call has returned: the deferred done runs and the wrapper returns.
SessReturn(h) ==
    /\ InBody(h, SessionOps, {"done"})
    /\ doneStep(h, 1, Top(h).op, Top(h).trace, WrapResult(Top(h).res), Pop(h))

SessionNext ==
    \/ \E h \in Handles, n \in Names, l \in Levels : BeginNamed(h, n, l)
    \/ \E h \in Handles : Done(h)
    \/ \E h \in Handles, l \in Levels : TxStart(h, l)
    \/ \E h \in Handles, e \in ClbResults : TxReturn(h, e)
    \/ \E h \in Handles : TxPanic(h)
    \/ \E h \in Handles, o \in SessionOps, l \in Levels : SessStart(h, o, l)
    \/ \E h \in Handles : wrapLogin(h)
    \/ \E h \in Handles, o \in LoginOutcomes : LoginEnd(h, o)
    \/ \E h \in Handles, r \in RemoteStates : logout(h, r)
    \/ \E h \in Handles, o \in RunOutcomes : OpRun(h, o)
    \/ \E h \in Handles : EnsureActive(h)
    \/ \E h \in Handles : SessReturn(h)
    \/ Admit
    \/ \E h \in Handles : Cancel(h)

SessionSpec == Init /\ [][SessionNext]_vars

\* ------------------------------------------------------------- specification
Next ==
    \/ \E h \in Handles, i \in Initiators : SetInitiator(h, i)
    \/ \E h \in Handles, n \in Names, l \in Levels : BeginNamed(h, n, l)
    \/ \E h \in Handles : Done(h)
    \/ \E h \in Handles, l \in Levels : TxStart(h, l)
    \/ \E h \in Handles, e \in ClbResults : TxReturn(h, e)
    \/ \E h \in Handles : TxPanic(h)
    \/ \E h \in Handles, o \in OpNames, l \in Levels : OpStart(h, o, l)
    \/ \E h \in Handles, r \in ClbResults : OpReturn(h, r)
    \/ \E h \in Handles : OpPanic(h)
    \/ Admit
    \/ \E h \in Handles : Cancel(h)

Spec == Init /\ [][Next]_vars

\* The scheduler is scheduled fairly: while the section is free and a request
\* waits, the admission is not put off forever.  The threads that drive the
\* handles get no such promise.
FairSpec == Spec /\ WF_vars(Admit)

\* ------------------------------------------------------------- the registry's readers
\* The entries the registry holds.
Entries == {registry[h] : h \in {g \in Handles : registry[g] /= NoEntry}}

\* Variant: Snapshot goes through the exclusive section.
SnapshotReadyWhenFree == holder = NoHandle

\* What Snapshot waits for: nothing.
SnapshotReady == TRUE

\* Snapshot: a diagnostic caller reads the queued and running entries.
Snapshot ==
    /\ SnapshotReady
    /\ last' = [handle |-> NoHandle, call |-> "Snapshot", arg |-> "",
                ret |-> Entries, base |-> 0, opens |-> 0,
                holder |-> holder, queue |-> queue]
    /\ UNCHANGED <<handleVars, pc, frames, schedVars, calls, status, credentials>>

RegistryNext == Next \/ Snapshot

RegistrySpec == Init /\ [][RegistryNext]_vars

\* ------------------------------------------------------------- a shared handle
\* Several threads call Begin and Done on one handle.  pc and frames are
\* those of the thread: frames[t] holds the Begin calls of thread t that have
\* returned or wait and that it has not closed.  A thread calls Done only to
\* close a Begin of its own that has returned.
SharedHandle == 1
Threads == Handles

\* Thread t calls BeginNamed(n) on the shared handle.
SharedBegin(t, n, level) ==
    LET h == SharedHandle
        v == isTx[h] + 1
    IN /\ pc[t] = "run"
       /\ isTx[h] < MaxDepth
       /\ isTx' = [isTx EXCEPT ![h] = v]
       /\ frames' = [frames EXCEPT ![t] =
              Append(@, [kind |-> "Begin", op |-> n, base |-> isTx[h]])]
       /\ last' = NoCall
       /\ IF beginAcquires(v)
          THEN /\ Locks < MaxLocks
               /\ name' = [name EXCEPT ![h] =
                      composeName(initiator[h], name[h], defaultName(n))]
               /\ Acquire(h, n, name'[h], level)
               /\ pc' = [pc EXCEPT ![t] = "botLock"]
               /\ calls' = [calls EXCEPT ![h].lock = @ + 1]
          ELSE UNCHANGED <<name, schedVars, pc, calls>>
       /\ UNCHANGED <<initiator, taskIsDoneCh, status, credentials>>

\* Thread t calls Done on the shared handle.
SharedDone(t) ==
    LET h == SharedHandle
        s == doneOnce(handleState(h))
    IN /\ pc[t] = "run"
       /\ frames[t] /= <<>>
       /\ isTx' = [isTx EXCEPT ![h] = s.isTx]
       /\ taskIsDoneCh' = [taskIsDoneCh EXCEPT ![h] = s.ch]
       /\ calls' = [calls EXCEPT ![h].unlock = @ + s.unlocks,
                                 ![h].close = @ + s.closes]
       /\ IF s.released THEN Release(h) ELSE UNCHANGED schedVars
       /\ frames' = [frames EXCEPT ![t] = Pop(t)]
       /\ last' = [handle |-> h, call |-> "Done", arg |-> "",
                   ret |-> IF s.panicked THEN "panic" ELSE "",
                   base |-> isTx[h], opens |-> 0]
       /\ UNCHANGED <<initiator, name, pc, status, credentials>>

\* The scheduler admits the next pending request: the botLock of the thread
\* that waits for it returns.
SharedAdmit ==
    /\ holder = NoHandle
    /\ queue /= <<>>
    /\ LET i == NextIndex(queue)
           r == queue[i]
       IN /\ holder' = r.handle
          /\ queue' = RemoveAt(queue, i)
          /\ registry' = [registry EXCEPT ![r.handle] =
                 [@ EXCEPT !.state = "running", !.startedAt = "set"]]
          /\ pc' = [t \in Threads |-> IF pc[t] = "botLock" THEN "run" ELSE pc[t]]
          /\ last' = [handle |-> r.handle, call |-> "botLock", arg |-> r.level,
                      ret |-> Overtaken(queue, i), base |-> i, opens |-> 0]
    /\ UNCHANGED <<handleVars, frames, calls, status, credentials>>

SharedNext ==
    \/ \E t \in Threads, n \in Names, l \in Levels : SharedBegin(t, n, l)
    \/ \E t \in Threads : SharedDone(t)
    \/ SharedAdmit

SharedSpec == Init /\ [][SharedNext]_vars

\* ------------------------------------------------------------- an unmatched Done
\* The callers keep no discipline: a thread may call Done with no Begin of
\* its own open.  frames[h] holds the Begin calls of the thread of h that it
\* has not closed.
TrackedBegin(h, n, level) ==
    /\ Ready(h)
    /\ beginStep(h, n, defaultName(n), level,
                 Append(frames[h], [kind |-> "Begin", op |-> n, base |-> isTx[h]]))

\* Done for a Begin of the thread that is open.
TrackedDone(h) ==
    /\ Ready(h)
    /\ frames[h] /= <<>>
    /\ doneStep(h, 1, "Done", "", "", Pop(h))

\* Done on a handle at depth 0, with no Begin open.
UnmatchedDone(h) ==
    /\ Ready(h)
    /\ frames[h] = <<>>
    /\ isTx[h] = 0
    /\ doneStep(h, 1, "Done", "unmatched", "", frames[h])

UnmatchedNext ==
    \/ \E h \in Handles, n \in Names, l \in Levels : TrackedBegin(h, n, l)
    \/ \E h \in Handles : TrackedDone(h)
    \/ \E h \in Handles : UnmatchedDone(h)
    \/ Admit

UnmatchedSpec == Init /\ [][UnmatchedNext]_vars

\* ------------------------------------------------------------- one thread, two handles
\* Handles 1 and 2 are driven by one thread; any further handle has a thread
\* of its own.
ThreadOf(h) == IF h <= 2 THEN 1 ELSE h

\* Variant: a thread goes on while one of its calls waits in botLock.
RunningAlways(t) == TRUE

\* botLock is a blocking call: a thread runs when none of its handles waits
\* in botLock.
Running(t) == \A g \in Handles : ThreadOf(g) = t => pc[g] = "run"

ThreadBegin(h, n, level) ==
    /\ Running(ThreadOf(h))
    /\ BeginNamed(h, n, level)

ThreadDone(h) ==
    /\ Running(ThreadOf(h))
    /\ Done(h)

ThreadNext ==
    \/ \E h \in Handles, n \in Names, l \in Levels : ThreadBegin(h, n, l)
    \/ \E h \in Handles : ThreadDone(h)
    \/ Admit

ThreadSpec == Init /\ [][ThreadNext]_vars

\* ------------------------------------------------------------- sustained load
\* A caller is done with its handle and constructs a new one for its next
\* call chain: the new handle starts as every handle does.
NewHandle(h) ==
    /\ pc[h] = "run"
    /\ frames[h] = <<>>
    /\ isTx[h] = 0
    /\ calls[h].lock >= 1
    /\ isTx' = [isTx EXCEPT ![h] = 0]
    /\ initiator' = [initiator EXCEPT ![h] = ""]
    /\ name' = [name EXCEPT ![h] = ""]
    /\ taskIsDoneCh' = [taskIsDoneCh EXCEPT ![h] = NewSignal]
    /\ calls' = [calls EXCEPT ![h] = [lock |-> 0, unlock |-> 0, close |-> 0]]
    /\ last' = NoCall
    /\ UNCHANGED <<pc, frames, schedVars, status, credentials>>

\* The load: the callers of handle 1 ask at Low priority, every other caller
\* asks at Critical priority, one call chain after the other.
StreamLevel(h) == IF h = 1 THEN "Low" ELSE "Critical"

\* The scheduler gets to admit only when a Critical request has arrived.
StreamAdmit ==
    /\ \E i \in 1..Len(queue) : queue[i].level = "Critical"
    /\ Admit

StreamNext ==
    \/ \E h \in Handles, n \in Names : BeginNamed(h, n, StreamLevel(h))
    \/ \E h \in Handles : Done(h)
    \/ \E h \in Handles : TxStart(h, StreamLevel(h))
    \/ \E h \in Handles, e \in ClbResults : TxReturn(h, e)
    \/ \E h \in Handles : NewHandle(h)
    \/ StreamAdmit

\* A handle closes a Begin or a Tx of its own and is back at depth d; at
\* depth 0 it has released the section.
StreamClose(d) ==
    \E h \in Handles :
        /\ Done(h) \/ \E e \in ClbResults : TxReturn(h, e)
        /\ isTx'[h] = d

\* Every behaviour of StreamSpec is a behaviour of the handles and the
\* scheduler in which steps keep being taken and every admitted holder
\* eventually releases: no handle reopens Begins forever without closing
\* the one it is in.
StreamSpec ==
    /\ Init /\ [][StreamNext]_vars
    /\ WF_vars(StreamNext)
    /\ \A d \in 0..(MaxDepth - 1) : SF_vars(StreamClose(d))

\* ------------------------------------------------------------- properties
\* A handle is in the exclusive section when its outermost Begin has returned
\* and its outermost Done has not run.
InSection(h) == pc[h] = "run" /\ isTx[h] >= 1

Pending(h) == {i \in 1..Len(queue) : queue[i].handle = h}

\* C1: mutual exclusion. In every reachable state at most one handle is in
\* the exclusive section, and that handle is the one the scheduler admitted.
C1_MutualExclusion ==
    /\ Cardinality({h \in Handles : InSection(h)}) <= 1
    /\ \A h \in Handles : InSection(h) => holder = h

\* C1 witness: one handle is in the section while another waits for it.
C1_Witness ==
    \E h, g \in Handles : h /= g /\ InSection(h) /\ pc[g] = "botLock"

\* C2: reentrancy. botLock is called once per cycle, by the Begin that moves
\* the depth from 0 to 1, and botUnlock once, by the Done that moves it from 1
\* to 0: the calls made and the depth always agree, so that an intermediate
\* Begin or Done adds no call.
C2_Reentrancy ==
    \A h \in Handles :
        /\ calls[h].lock - calls[h].unlock = (IF isTx[h] >= 1 THEN 1 ELSE 0)
        /\ isTx[h] >= 0

\* C2 witness: the inner Done of Begin; Begin; Done has run and the handle has
\* called botLock once and botUnlock not at all.
C2_Witness ==
    /\ last.call = "Done"
    /\ last.base = 2
    /\ last.handle \in Handles
    /\ isTx[last.handle] = 1
    /\ calls[last.handle].lock = 1
    /\ calls[last.handle].unlock = 0

\* The ranks the four priorities are documented with.
C3_Rank(level) ==
    CASE level = "Low" -> 1
      [] level = "Normal" -> 2
      [] level = "Important" -> 3
      [] level = "Critical" -> 4

\* C3: admission ordering. The request just admitted had, among the requests
\* waiting at that moment, the highest priority, and was the earliest of that
\* priority: no request it left behind ranks higher, and one of equal rank
\* was queued behind it.
C3_AdmissionOrder ==
    (last.call = "botLock" /\ last.ret /= "CancellationError") =>
        \A j \in 1..Len(queue) :
            /\ C3_Rank(queue[j].level) <= C3_Rank(last.arg)
            /\ C3_Rank(queue[j].level) = C3_Rank(last.arg) => last.base <= j

\* C3 witness: a Critical request has just been admitted ahead of a Normal
\* request that was queued before it and still waits.
C3_Witness ==
    /\ last.call = "botLock"
    /\ last.ret = "overtook"
    /\ last.arg = "Critical"
    /\ \E j \in 1..Len(queue) : j < last.base /\ queue[j].level = "Normal"

\* C4: Tx always ends the transaction it began. After Tx, whatever its
\* callback returned, the depth is what it was before the call, the section
\* is released when Tx was the outermost Begin, and the value Tx returned is
\* the value its callback returned.
C4_TxEndsTransaction ==
    (last.call = "Tx" /\ last.arg \in ClbResults) =>
        /\ isTx[last.handle] = last.base
        /\ last.base = 0 =>
               holder /= last.handle /\ registry[last.handle] = NoEntry
        /\ last.ret /= "panic" => last.ret = last.arg

\* C4 witness: an outermost Tx whose callback returned an error has returned
\* that error, at depth 0 and with the section released.
C4_Witness ==
    /\ last.call = "Tx"
    /\ last.arg = "err"
    /\ last.ret = "err"
    /\ last.base = 0
    /\ isTx[last.handle] = 0
    /\ holder /= last.handle

\* C5: scoped release. When the callback of Tx or the bot call of a wrapped
\* operation panics, the deferred Done of every open call runs: no call is
\* left open, the depth is back to what it was before the outermost one (plus
\* the Begin calls the callback itself left open), and at depth 0 the section
\* is released.
C5_ReleaseOnPanic ==
    (last.ret = "panic" /\ last.arg = "panic") =>
        /\ frames[last.handle] = <<>>
        /\ isTx[last.handle] = last.base + last.opens
        /\ last.base + last.opens = 0 =>
               holder /= last.handle /\ registry[last.handle] = NoEntry

\* C5 witness: a wrapped operation or a callback has panicked while its
\* handle held the section; the section is free and a waiter can be admitted.
C5_Witness ==
    /\ last.ret = "panic"
    /\ last.arg = "panic"
    /\ last.base = 0
    /\ holder = NoHandle
    /\ queue /= <<>>
    /\ calls[last.handle].unlock = 1

C7_CompletionSignal ==
    \A h \in Handles :
        /\ isTx[h] >= 1 => taskIsDoneCh[h] = "open"
        /\ calls[h].close <= 1

\* C8: Done never fails. No Done call ends in a panic.
C8_DoneNeverFails ==
    last.call = "Done" => last.ret /= "panic"

\* The label a Begin with the name n is documented to give the handle.
C9_Expected(init, n) ==
    LET m == IF n = "" THEN "Tx" ELSE n
    IN IF init /= "" THEN init \o ":" \o m ELSE m

\* C9: name composition. After every 0 -> 1 transition of the depth, the
\* handle's name, under which the admission request is issued, is
\* initiator + ":" + n, or n without an initiator, an empty n read as "Tx".
C9_NameComposition ==
    \A i \in 1..Len(queue) :
        LET r == queue[i]
        IN /\ r.label = C9_Expected(initiator[r.handle], r.arg)
           /\ name[r.handle] = r.label

\* C10: a nested Begin never blocks. A handle waits for admission only in the
\* Begin that moved its depth from 0 to 1, with exactly one request pending;
\* a handle that is not waiting has no request pending, so that a Begin at a
\* depth above 0 returned without asking the scheduler.
C10_NestedBeginNeverBlocks ==
    \A h \in Handles :
        /\ pc[h] = "botLock" => isTx[h] = 1 /\ Cardinality(Pending(h)) = 1
        /\ pc[h] = "botLock" => holder /= h
        /\ pc[h] /= "botLock" => Pending(h) = {}

\* C10 witness: a handle is at depth 2, its nested Begin returned, while a
\* Critical request of another handle is queued.
C10_Witness ==
    \E h \in Handles :
        /\ isTx[h] = MaxDepth
        /\ pc[h] = "run"
        /\ holder = h
        /\ \E i \in 1..Len(queue) : queue[i].level = "Critical"

\* C11: no preemption. A step that changes the holder is the holder's own
\* release, the Done that takes its depth to 0 and calls botUnlock; it leaves
\* the section free.  No step, whatever requests arrive, hands the section
\* from one handle to another or takes it from a handle whose depth stays
\* above 0.
C11_NoPreemption ==
    [][holder /= NoHandle =>
           \/ holder' = holder
           \/ /\ holder' = NoHandle
              /\ isTx'[holder] = 0
              /\ calls'[holder].unlock = calls[holder].unlock + 1]_vars

\* C11 witness: a handle admitted at Low priority is in the section at depth
\* 1 or more while a Critical request waits in the queue.
C11_Witness ==
    \E h \in Handles :
        /\ holder = h
        /\ InSection(h)
        /\ registry[h].state = "running"
        /\ registry[h].priority = Low
        /\ \E i \in 1..Len(queue) : queue[i].level = "Critical"

SectionIdle == \A h \in Handles : ~InSection(h)

\* C13: progress on release. Under fair scheduling of the scheduler, whenever
\* the outermost Done of the holder has run, so that no handle is in the
\* section, while requests wait, one of them is admitted and enters the
\* section, unless every one of them is canceled first: the section does not
\* stay free forever while requests wait, and no release is lost.
C13_ProgressOnRelease ==
    (SectionIdle /\ queue /= <<>>) ~> (~SectionIdle \/ queue = <<>>)

\* C13 witness: the holder's outermost Done has just released the section
\* while a request waits.
C13_Witness ==
    /\ last.call \in {"Done", "Tx"} \cup OpNames
    /\ last.handle \in Handles
    /\ isTx[last.handle] = 0
    /\ calls[last.handle].unlock >= 1
    /\ holder = NoHandle
    /\ SectionIdle
    /\ queue /= <<>>

\* A Critical request has just been admitted.
CriticalAdmitted == last.call = "botLock" /\ last.arg = "Critical"

\* C14: starvation is possible. Under a sustained load of Critical requests,
\* each admitted and released in turn, the section is granted to a Critical
\* request again and again, every holder releases, and a Low request, once
\* it waits, waits forever: it is never admitted.
C14_Starvation ==
    /\ []<>CriticalAdmitted
    /\ []<>(holder = NoHandle)
    /\ [](pc[1] = "botLock" => [](pc[1] = "botLock"))

\* C14 witness: the Low request waits at the head of the queue while a
\* Critical request that was queued after it has just been admitted.
C14_Witness ==
    /\ CriticalAdmitted
    /\ last.ret = "overtook"
    /\ pc[1] = "botLock"
    /\ queue /= <<>>
    /\ queue[1].handle = 1
    /\ queue[1].level = "Low"

\* C15: the session status is changed only by the admitted handle. Every
\* step that changes status is a step of the body of a call of one handle,
\* and that handle is the holder, at a depth above 0, with its Begin
\* returned: Login, LoginWithBearerToken, LoginWithExistingCookies, Logout
\* and the automatic re-login change status inside the exclusive section.
C15_StatusChangedByHolder ==
    [][status' /= status =>
           \E h \in Handles :
               /\ frames'[h] /= frames[h]
               /\ holder = h
               /\ holder' = h
               /\ pc[h] = "run"
               /\ isTx[h] > 0
               /\ \A g \in Handles \ {h} : frames'[g] = frames[g]]_vars

\* C15 witness: a handle is logging in while the other handle, which asked
\* for a wrapped operation of its own, waits for the section.
C15_Witness ==
    \E h, g \in Handles :
        /\ h /= g
        /\ status = "LoggingIn"
        /\ InBody(h, LoginOps \cup GameOps, {"login"})
        /\ holder = h
        /\ pc[g] = "botLock"
        /\ InOp(g)

\* C16: every wrapped operation runs between a Begin and a Done of its own.
\* While the bot call of a wrapped operation executes, the handle's depth is
\* above 0 and the handle holds the section; when the operation has returned
\* the depth is what it was on entry, the section released when that was 0
\* and still held when the operation was called inside a transaction.
C16_WrappedInBeginDone ==
    /\ \A h \in Handles :
           InBody(h, SessionOps, {"call", "login", "expired", "retry", "done"}) =>
               isTx[h] = Top(h).base + 1 /\ holder = h
    /\ (last.call \in SessionOps) =>
           /\ isTx[last.handle] = last.base
           /\ last.base = 0 =>
                  holder /= last.handle /\ registry[last.handle] = NoEntry
           /\ last.base > 0 => holder = last.handle

\* C16 witness: Logout, called inside a transaction of depth 1, has returned
\* and the handle still holds the section at depth 1.
C16_Witness ==
    /\ last.call = "Logout"
    /\ last.ret /= "panic"
    /\ last.base = 1
    /\ isTx[last.handle] = 1
    /\ holder = last.handle
    /\ status = "LoggedOut"

\* The transitions of the session status the claim lists.
C17_Listed ==
    {<<"LoggedOut", "LoggingIn">>, <<"LoggingIn", "Active">>,
     <<"Active", "Expired">>, <<"Expired", "LoggingIn">>,
     <<"Active", "LoggedOut">>, <<"Expired", "LoggedOut">>}

C18_FailedLogin ==
    (last.call \in LoginOps) =>
        /\ last.arg = <<"login", "rejected">> =>
               /\ status = "LoggedOut"
               /\ last.ret \in {"AuthenticationError", "panic"}
        /\ last.arg = <<"login", "accepted">> =>
               /\ status = "Active"
               /\ last.ret \in {"nil", "panic"}

\* C18 witness: Login was called with the session LoggedOut, its credentials
\* were rejected, and it has returned the authentication error.
C18_Witness ==
    /\ last.call = "Login"
    /\ last.arg = <<"login", "rejected">>
    /\ last.ret = "AuthenticationError"
    /\ status = "LoggedOut"

\* The remote calls in the trace t of an operation.
C19_Runs(t) == Count(t, "run:ok") + Count(t, "run:expired")

\* C19: expiry recovery happens at most once per call. An operation that has
\* returned made at most one login attempt, and exactly one when a remote
\* call of it found the session expired.  When the attempt was accepted the
\* operation ran exactly once more, that run came last and its result is the
\* one returned, an expiry it ran into included; when the attempt was
\* rejected nothing followed it and the operation returned the
\* authentication error.
C19_RecoveryOnce ==
    (last.call \in GameOps) =>
        LET t == last.arg
            n == Len(t)
        IN /\ Count(t, "login") <= 1
           /\ C19_Runs(t) <= 2
           /\ Count(t, "run:expired") >= 1 => Count(t, "login") = 1
           /\ Count(t, "accepted") = 1 =>
                  /\ t[n - 1] = "accepted"
                  /\ t[n] \in {"run:ok", "run:expired"}
                  /\ last.ret \in {IF t[n] = "run:ok" THEN "nil"
                                   ELSE "SessionExpiredError", "panic"}
           /\ Count(t, "rejected") = 1 =>
                  /\ t[n] = "rejected"
                  /\ last.ret \in {"AuthenticationError", "panic"}

\* C19 witness: an operation found the session expired, logged in again
\* once, ran once more and has returned the result of that run.
C19_Witness ==
    /\ last.call \in GameOps
    /\ last.arg = <<"run:expired", "login", "accepted", "run:ok">>
    /\ last.ret = "nil"
    /\ status = "Active"

\* C20: EnsureActive is idempotent on an active session. A call of
\* EnsureActive made while the status is Active, the first or a repeated
\* one, has started no login: the status is still Active, the credentials
\* are what they were, the calling operation is where it was, with as many
\* login attempts as before, and EnsureActive reports that it did nothing.
C20_EnsureActiveIdempotent ==
    (last.call = "EnsureActive" /\ last.arg = "Active") =>
        /\ status = "Active"
        /\ credentials = last.credentials
        /\ last.ret = "noop"
        /\ InBody(last.handle, GameOps, {"call", "retry"})
        /\ Count(Top(last.handle).trace, "login") = last.base

\* C20 witness: EnsureActive has been called on an Active session by an
\* operation that had logged in again before and is about to run once more.
C20_Witness ==
    /\ last.call = "EnsureActive"
    /\ last.arg = "Active"
    /\ last.ret = "noop"
    /\ last.base = 1
    /\ status = "Active"
    /\ InBody(last.handle, GameOps, {"retry"})

\* C21: Logout is best-effort and total. When Logout has returned, from
\* whatever status it was called and with the remote service reachable or
\* not, the status is LoggedOut, the depth is what it was on entry and the
\* section the call took is released.  Logout reports nothing to its caller;
\* the one way it does not return is the panic of the deferred done on a
\* handle that already went through an earlier cycle.
C21_LogoutTotal ==
    (last.call = "Logout") =>
        /\ status = "LoggedOut"
        /\ isTx[last.handle] = last.base
        /\ last.base = 0 =>
               holder /= last.handle /\ registry[last.handle] = NoEntry
        /\ last.ret \in {"", "panic"}
        /\ last.ret = "panic" => calls[last.handle].lock >= 2

\* C21 witness: Logout, called outside a transaction while the remote
\* service was unreachable, has returned; the section is free.
C21_Witness ==
    /\ last.call = "Logout"
    /\ last.arg = <<"logout:unreachable">>
    /\ last.ret = ""
    /\ last.base = 0
    /\ status = "LoggedOut"
    /\ credentials = "token"
    /\ holder = NoHandle

\* C22: registry consistency. The registry holds an entry for a handle's
\* request exactly when the request is pending or admitted; the entry is
\* running, with a started-at value, exactly when the request is admitted,
\* and queued without one while it is pending, under the label and the
\* priority it was queued with; at most one entry is running; no request is
\* pending and admitted at the same time.
C22_RegistryConsistency ==
    /\ \A h \in Handles :
           /\ registry[h] /= NoEntry <=> (Pending(h) /= {} \/ holder = h)
           /\ ~(Pending(h) /= {} /\ holder = h)
           /\ holder = h =>
                  registry[h].state = "running" /\ registry[h].startedAt = "set"
           /\ \A i \in Pending(h) :
                  /\ registry[h].state = "queued"
                  /\ registry[h].startedAt = "nil"
                  /\ registry[h].label = queue[i].label
                  /\ registry[h].priority = queue[i].priority
    /\ Cardinality({h \in Handles : registry[h].state = "running"}) <= 1

\* C22 witness: one request was canceled and its entry is gone, the other
\* request is admitted and its entry is the running one.
C22_Witness ==
    \E h, g \in Handles :
        /\ pc[h] = "cancelled"
        /\ registry[h] = NoEntry
        /\ holder = g
        /\ registry[g].state = "running"
        /\ registry[g].startedAt = "set"

\* C23: Snapshot never waits for the exclusive section. In every reachable
\* state, with a holder in the section and with waiters queued, a Snapshot
\* can be taken; one that has been taken returned the queued and running
\* entries of the registry and left the holder and the queue as they were.
C23_SnapshotNeverWaits ==
    /\ ENABLED Snapshot
    /\ last.call = "Snapshot" =>
           /\ last.ret = Entries
           /\ holder = last.holder
           /\ queue = last.queue

\* C23 witness: a Snapshot taken while one handle holds the section and the
\* other waits has returned the running and the queued entry.
C23_Witness ==
    /\ last.call = "Snapshot"
    /\ holder /= NoHandle
    /\ queue /= <<>>
    /\ Cardinality(last.ret) = 2
    /\ \E e \in last.ret : e.state = "running"
    /\ \E e \in last.ret : e.state = "queued"

\* C24: release precedes completion. In every state where the completion
\* signal of a handle is fulfilled, that handle is not the holder of the
\* section.
C24_ReleasePrecedesCompletion ==
    \A h \in Handles : taskIsDoneCh[h] = "closed" => holder /= h

\* C25: a returned Begin implies ownership on a shared handle. Whenever a
\* Begin of some thread has returned and that thread has not yet called the
\* matching Done, the shared handle is the holder of the section.
C25_ReturnedBeginOwns ==
    \A t \in Threads :
        (pc[t] = "run" /\ frames[t] /= <<>>) => holder = SharedHandle

\* C26: an unmatched Done is harmless. Whenever a Begin of a handle's thread
\* has returned and is not yet closed, the thread having called Done at
\* depth 0 before or not, the handle's depth is above 0 and the handle holds
\* the exclusive section.
C26_UnmatchedDoneHarmless ==
    \A h \in Handles :
        (pc[h] = "run" /\ frames[h] /= <<>>) => isTx[h] > 0 /\ holder = h

\* C27: the label is fixed for the duration of ownership. No step that
\* leaves a handle's depth above 0 (a nested BeginNamed with any name, a
\* SetInitiator, an inner Done) changes the handle's name, and when the
\* holder's outermost Done calls botUnlock, the name it passes is the label
\* its outermost Begin passed to botLock, the one the registry recorded.
C27_LabelFixed ==
    [][\A h \in Handles :
          /\ (isTx[h] > 0 /\ isTx'[h] > 0) => name'[h] = name[h]
          /\ (calls'[h].unlock > calls[h].unlock /\ holder = h) =>
                 /\ registry[h] /= NoEntry
                 /\ registry[h].label = name[h]
                 /\ name'[h] = name[h]]_vars

\* An outermost Done has just unlocked under the label "A" although the
\* initiator was set to "job" while the handle owned the section.
C27_Witness ==
    \E h \in Handles :
        /\ last.call = "Done" /\ last.handle = h /\ last.ret /= "panic"
        /\ isTx[h] = 0 /\ calls[h].unlock = 1
        /\ initiator[h] = "job" /\ name[h] = "A"

\* The thread of a and b holds the section through a and waits in botLock
\* for b.
HeldAndWaiting(a, b) ==
    /\ a /= b /\ ThreadOf(a) = ThreadOf(b)
    /\ holder = a /\ pc[a] = "run" /\ isTx[a] > 0
    /\ pc[b] = "botLock" /\ Pending(b) /= {}

\* C28: ownership is per handle, not per thread. Once a thread that holds
\* the section through handle a waits in Begin on another handle b, whatever
\* b's priority, every later step leaves a the holder at the same depth and
\* b waiting, and admits nobody: the requests that were queued stay queued,
\* in their order.
C28_SelfDeadlock ==
    [][\A a, b \in Handles :
          HeldAndWaiting(a, b) =>
              /\ HeldAndWaiting(a, b)'
              /\ isTx'[a] = isTx[a]
              /\ Len(queue') >= Len(queue)
              /\ SubSeq(queue', 1, Len(queue)) = queue
              /\ ~ENABLED Admit]_vars

\* The section is held through one handle while the same thread waits on
\* the other with a Critical request.
C28_Witness ==
    \E a, b \in Handles :
        /\ HeldAndWaiting(a, b)
        /\ \E i \in Pending(b) : queue[i].level = "Critical"

====
